---- MODULE Spec2Model ----
(***************************************************************************)
(* Model of the Fantasy NBA data fetcher (fetch_data.py): the retry        *)
(* wrapper, the chunked schedule fetch, the player-stats join, the         *)
(* snapshot writer and the orchestrating main().                           *)
(***************************************************************************)
EXTENDS Integers, Sequences, FiniteSets, TLC

VARIABLES
    pc,              \* control position
    r_retries,       \* retry_api_call: parameter retries
    r_delay,         \* retry_api_call: parameter delay
    r_i,             \* retry_api_call: loop index i
    r_calls,         \* number of invocations of func in the current call
    r_waits,         \* the sleeps of the current call, in order
    r_status,        \* "running", "returned", "raised" or "fellthrough"
    r_last,          \* outcome of the latest invocation of func
    espn_events,     \* schedule provider: its events, in the order it lists them
    start_date,      \* fetch_schedule_espn: parameter start_date (ordinal)
    end_date,        \* fetch_schedule_espn: parameter end_date (ordinal)
    current_date,    \* fetch_schedule_espn: current_date (ordinal)
    all_games,       \* fetch_schedule_espn: all_games
    chunks,          \* history: the windows requested so far, in order
    served,          \* history: the events of the responses received so far
    stats_avg,       \* stats provider: rows it answers in PerGame mode
    stats_tot,       \* stats provider: rows it answers in Totals mode
    df_avg,          \* fetch_player_stats: df_avg once the first query returned
    queries,         \* history: the queries the current fetch_player_stats issued
    today,           \* main: today
    current_season,  \* main: current_season
    season_start,    \* main: season_start
    season_end,      \* main: season_end
    results,         \* main: results, by artifact number
    art,             \* number of the artifact being fetched or saved
    data,            \* the fetch result handed to save_json
    files,           \* DATA_DIR: content of each artifact
    save_name,       \* save_json: filename of the latest call
    save_before,     \* history: content of the artifact before the latest save
    save_ret,        \* history: return value of the latest save_json
    steps,           \* history: the fetch and save steps of main, in order
    exit_code        \* sys.exit status, -1 while running

retryVars == <<r_retries, r_delay, r_i, r_calls, r_waits, r_status, r_last>>
schedVars == <<espn_events, start_date, end_date, current_date, all_games,
               chunks, served>>
statsVars == <<stats_avg, stats_tot, df_avg, queries>>
mainVars == <<today, current_season, season_start, season_end, results, art,
              data, files, save_name, save_before, save_ret, steps, exit_code>>
vars == <<pc, retryVars, schedVars, statsVars, mainVars>>

-----------------------------------------------------------------------------
(* Configuration *)

MAX_RETRIES == 3
RETRY_DELAY == 5

\* bounds of the arguments tried for retry_api_call taken alone
MaxRetriesArg == 4
MaxDelayArg == 3

-----------------------------------------------------------------------------
(* retry_api_call *)

\* the exception classes named by the except clause
Transient == {"ReadTimeout", "ConnectionError", "RequestException"}
\* any other exception func may raise
NonTransient == {"ValueError"}
\* func returned a value: a usable one or one the caller cannot process
Returns == {"ok", "malformed"}
FuncOutcomes == Returns \cup Transient \cup NonTransient

IsCaught(out) == out \in Transient

\* off by one: a sleep after the last allowed attempt too
HasAttemptLeftOffByOne(i, retries) == i < retries

HasAttemptLeft(i, retries) == i < retries - 1

SleepTime(delay, i) == delay * (i + 1)

\* one iteration of the for loop: func is invoked and ends with `out`
RetryStep(out) ==
    /\ r_status = "running"
    /\ r_i < r_retries
    /\ r_calls' = r_calls + 1
    /\ r_last' = out
    /\ UNCHANGED <<r_retries, r_delay>>
    /\ IF out \in Returns
         THEN /\ r_status' = "returned"
              /\ UNCHANGED <<r_i, r_waits>>
         ELSE IF IsCaught(out) /\ HasAttemptLeft(r_i, r_retries)
           THEN /\ r_waits' = Append(r_waits, SleepTime(r_delay, r_i))
                /\ r_i' = r_i + 1
                /\ r_status' = "running"
           ELSE /\ r_status' = "raised"
                /\ UNCHANGED <<r_i, r_waits>>

\* a fresh call retry_api_call(func): the defaults of the signature
RetryStart ==
    /\ r_retries' = MAX_RETRIES
    /\ r_delay' = RETRY_DELAY
    /\ r_i' = 0
    /\ r_calls' = 0
    /\ r_waits' = <<>>
    /\ r_status' = "running"
    /\ r_last' = "none"

\* values of the variables a specification does not use
None == [kind |-> "None"]
PriorContent == [kind |-> "prior"]
Artifacts == 1..5

IdleSched ==
    /\ espn_events = <<>>
    /\ start_date = 0
    /\ end_date = 0
    /\ current_date = 0
    /\ all_games = <<>>
    /\ chunks = <<>>
    /\ served = <<>>

IdleStats ==
    /\ stats_avg = <<>>
    /\ stats_tot = <<>>
    /\ df_avg = <<>>
    /\ queries = <<>>

IdleMainAt(k) ==
    /\ today = [year |-> 0, month |-> 0, day |-> 0]
    /\ current_season = [from |-> 0, to |-> 0]
    /\ season_start = [year |-> 0, month |-> 0, day |-> 0]
    /\ season_end = [year |-> 0, month |-> 0, day |-> 0]
    /\ results = [a \in Artifacts |-> FALSE]
    /\ art = k
    /\ data = None
    /\ files = [a \in Artifacts |-> PriorContent]
    /\ save_name = [base |-> "", season |-> [from |-> 0, to |-> 0]]
    /\ save_before = PriorContent
    /\ save_ret = FALSE
    /\ steps = <<>>
    /\ exit_code = -1

\* retry_api_call taken alone -------------------------------------------------

InitRetry ==
    /\ pc = "retry"
    /\ r_retries \in 0..MaxRetriesArg
    /\ r_delay \in 1..MaxDelayArg
    /\ r_i = 0
    /\ r_calls = 0
    /\ r_waits = <<>>
    /\ r_status = "running"
    /\ r_last = "none"
    /\ IdleSched
    /\ IdleStats
    /\ IdleMainAt(0)

RetryAttempt ==
    /\ pc = "retry"
    /\ \E out \in FuncOutcomes : RetryStep(out)
    /\ UNCHANGED <<pc, schedVars, statsVars, mainVars>>

\* range(retries) is empty: the loop body never runs and None is returned
RetryFallThrough ==
    /\ pc = "retry"
    /\ r_status = "running"
    /\ r_i >= r_retries
    /\ r_status' = "fellthrough"
    /\ UNCHANGED <<pc, r_retries, r_delay, r_i, r_calls, r_waits, r_last>>
    /\ UNCHANGED <<schedVars, statsVars, mainVars>>

NextRetry == RetryAttempt \/ RetryFallThrough

SpecRetry == InitRetry /\ [][NextRetry]_vars

-----------------------------------------------------------------------------
(* Calendar dates: datetime.date and timedelta arithmetic *)

Date(y, m, d) == [year |-> y, month |-> m, day |-> d]

IsLeap(y) == (y % 4 = 0 /\ y % 100 # 0) \/ y % 400 = 0

DaysInMonth(y, m) ==
    IF m = 2 THEN (IF IsLeap(y) THEN 29 ELSE 28)
    ELSE IF m \in {4, 6, 9, 11} THEN 30 ELSE 31

RECURSIVE DaysBeforeMonth(_, _)
DaysBeforeMonth(y, m) ==
    IF m <= 1 THEN 0 ELSE DaysBeforeMonth(y, m - 1) + DaysInMonth(y, m - 1)

DaysBeforeYear(y) ==
    LET p == y - 1 IN p * 365 + (p \div 4) - (p \div 100) + (p \div 400)

IsDate(d) == d.month \in 1..12 /\ d.day \in 1..DaysInMonth(d.year, d.month)

\* date.toordinal(): what date + timedelta(days = n) adds n to
ToOrdinal(d) == DaysBeforeYear(d.year) + DaysBeforeMonth(d.year, d.month) + d.day

\* date.fromordinal(n), for an ordinal within two years after year y
FromOrdinal(n, y) ==
    CHOOSE d \in [year : y..(y + 2), month : 1..12, day : 1..31] :
        IsDate(d) /\ ToOrdinal(d) = n

-----------------------------------------------------------------------------
(* fetch_schedule_espn *)

chunk_size == 7

nba_teams ==
    {"ATL", "BOS", "BKN", "CHA", "CHI", "CLE", "DAL", "DEN", "DET", "GS",
     "HOU", "IND", "LAC", "LAL", "MEM", "MIA", "MIL", "MIN", "NO", "NY",
     "OKC", "ORL", "PHI", "PHX", "POR", "SA", "SAC", "TOR", "UTAH", "WSH"}

Min(a, b) == IF a <= b THEN a ELSE b

ChunkEnd(cur, last) == Min(cur + (chunk_size - 1), last)

\* the provider's answer to ?dates=a-b: its events filed under a day of [a, b]
Response(events, a, b) ==
    SelectSeq(events, LAMBDA e : a <= e.pday /\ e.pday <= b)

NoTeam == [abbreviation |-> "", id |-> ""]

\* the team of the last competitor for which the loop takes the given branch
RECURSIVE LastTeam(_, _)
LastTeam(competitors, wantHome) ==
    IF competitors = <<>> THEN NoTeam
    ELSE LET n == Len(competitors)
             c == competitors[n]
         IN IF (c.homeAway = "home") = wantHome
              THEN c.team
              ELSE LastTeam(SubSeq(competitors, 1, n - 1), wantHome)

\* int(team.get('id', 0)): the ids that parse, and their values
IdValue == [i \in {"2", "9", "13", "14", "18", "99"} |->
              CASE i = "2" -> 2 [] i = "9" -> 9 [] i = "13" -> 13
                [] i = "14" -> 14 [] i = "18" -> 18 [] OTHER -> 99]

IntParses(s) == s \in DOMAIN IdValue

\* the date of the UTC timestamp moved by the fixed offset of -5 hours
et_offset_hours == 5
GameDateOnly(ts) == IF ts.hour >= et_offset_hours THEN ts.day ELSE ts.day - 1

EnoughCompetitors(competitors) == ~(Len(competitors) < 2)

HomeEntry(d, home, away) ==
    [date |-> d, team_id |-> IdValue[home.id], team_abbr |-> home.abbreviation,
     matchup |-> <<home.abbreviation, "vs.", away.abbreviation>>,
     is_home |-> TRUE]

AwayEntry(d, home, away) ==
    [date |-> d, team_id |-> IdValue[away.id], team_abbr |-> away.abbreviation,
     matchup |-> <<away.abbreviation, "@", home.abbreviation>>,
     is_home |-> FALSE]

\* the filters of the event loop up to the date parse: TRUE when the loop
\* reaches the two appends for this event
PassesFilters(e) ==
    /\ e.has_competitions
    /\ EnoughCompetitors(e.competitors)
    /\ LastTeam(e.competitors, TRUE) # NoTeam
    /\ LastTeam(e.competitors, FALSE) # NoTeam
    /\ LastTeam(e.competitors, TRUE).abbreviation \in nba_teams
    /\ LastTeam(e.competitors, FALSE).abbreviation \in nba_teams
    /\ e.date.valid

\* one iteration of the event loop: the list afterwards, and whether an
\* exception left the loop for the except clause of the window
ProcessEvent(e, games) ==
    IF ~PassesFilters(e) THEN [games |-> games, raised |-> FALSE]
    ELSE LET home == LastTeam(e.competitors, TRUE)
             away == LastTeam(e.competitors, FALSE)
             d == GameDateOnly(e.date)
         IN IF ~IntParses(home.id) THEN [games |-> games, raised |-> TRUE]
            ELSE LET withHome == Append(games, HomeEntry(d, home, away))
                 IN IF ~IntParses(away.id)
                      THEN [games |-> withHome, raised |-> TRUE]
                      ELSE [games |-> Append(withHome, AwayEntry(d, home, away)),
                            raised |-> FALSE]

RECURSIVE ProcessEvents(_, _)
ProcessEvents(events, games) ==
    IF events = <<>> THEN games
    ELSE LET r == ProcessEvent(Head(events), games)
         IN IF r.raised THEN r.games ELSE ProcessEvents(Tail(events), r.games)

ScheduleResult(games) ==
    IF games = <<>> THEN None
    ELSE [kind |-> "schedule", season |-> "2025-26", source |-> "ESPN API",
          games |-> games]

\* fetch_schedule_espn(start, last) is entered
SchedEnter(start, last) ==
    /\ start_date' = start
    /\ end_date' = last
    /\ current_date' = start
    /\ all_games' = <<>>
    /\ chunks' = <<>>
    /\ served' = <<>>
    /\ RetryStart

\* one invocation of api_call for the current window
SchedRequest ==
    /\ pc = "schedule"
    /\ current_date <= end_date
    /\ \E out \in FuncOutcomes : RetryStep(out)
    /\ UNCHANGED <<pc, schedVars, statsVars, mainVars>>

NextChunk ==
    /\ chunks' = Append(chunks, [from |-> current_date,
                                 to |-> ChunkEnd(current_date, end_date)])
    /\ current_date' = ChunkEnd(current_date, end_date) + 1
    /\ RetryStart

\* the request returned: response.json() and the event loop
SchedChunkReturned ==
    /\ pc = "schedule"
    /\ current_date <= end_date
    /\ r_status = "returned"
    /\ LET resp == Response(espn_events, current_date,
                            ChunkEnd(current_date, end_date))
       IN IF r_last = "ok"
            THEN /\ all_games' = ProcessEvents(resp, all_games)
                 /\ served' = served \o resp
            ELSE UNCHANGED <<all_games, served>>
    /\ NextChunk
    /\ UNCHANGED <<pc, espn_events, start_date, end_date, statsVars, mainVars>>

\* the request raised: the except clause of the window
SchedChunkRaised ==
    /\ pc = "schedule"
    /\ current_date <= end_date
    /\ r_status = "raised"
    /\ NextChunk
    /\ UNCHANGED <<pc, espn_events, start_date, end_date, all_games, served,
                   statsVars, mainVars>>

\* the while loop ends and the function returns
SchedReturn ==
    /\ pc = "schedule"
    /\ current_date > end_date
    /\ data' = ScheduleResult(all_games)
    /\ steps' = Append(steps, <<"fetched", art>>)
    /\ pc' = "save"
    /\ UNCHANGED <<retryVars, schedVars, statsVars, today, current_season,
                   season_start, season_end, results, art, files, save_name,
                   save_before, save_ret, exit_code>>

\* fetch_schedule_espn taken alone ---------------------------------------------

MaxRangeDays == 9
MaxEvents == 2
SchedBase == ToOrdinal(Date(2025, 10, 1))

Team(abbr, id) == [abbreviation |-> abbr, id |-> id]
Competitor(flag, abbr, id) == [homeAway |-> flag, team |-> Team(abbr, id)]
Stamp(valid, dayOffset, hour) == [valid |-> valid, dayOffset |-> dayOffset, hour |-> hour]
Shape(hasComp, competitors, stamp) ==
    [has_competitions |-> hasComp, competitors |-> competitors, stamp |-> stamp]

Evening == Stamp(TRUE, 0, 23)
ValidShape == Shape(TRUE, <<Competitor("home", "BOS", "2"),
                            Competitor("away", "LAL", "13")>>, Evening)
BadAwayIdShape == Shape(TRUE, <<Competitor("home", "BOS", "2"),
                                Competitor("away", "LAL", "x")>>, Evening)

EventShapes ==
    { ValidShape,
      \* away listed first, tip-off after midnight UTC
      Shape(TRUE, <<Competitor("away", "GS", "9"),
                    Competitor("home", "NY", "18")>>, Stamp(TRUE, 1, 0)),
      Shape(TRUE, <<Competitor("home", "BOS", "2")>>, Evening),
      Shape(TRUE, <<Competitor("home", "BOS", "2"),
                    Competitor("away", "LAL", "13"),
                    Competitor("away", "MIA", "14")>>, Evening),
      \* no homeAway flag on the second competitor
      Shape(TRUE, <<Competitor("home", "BOS", "2"),
                    Competitor("", "LAL", "13")>>, Evening),
      Shape(TRUE, <<Competitor("home", "BOS", "2"),
                    Competitor("home", "LAL", "13")>>, Evening),
      Shape(TRUE, <<Competitor("home", "BOS", "2"),
                    Competitor("away", "MEL", "99")>>, Evening),
      Shape(TRUE, <<Competitor("home", "BOS", "2"),
                    Competitor("away", "LAL", "13")>>, Stamp(FALSE, 0, 0)),
      BadAwayIdShape,
      Shape(TRUE, <<Competitor("home", "BOS", "x"),
                    Competitor("away", "LAL", "13")>>, Evening),
      Shape(FALSE, <<>>, Evening) }

\* an event of the given shape the provider files under day pday
EventAt(shape, pday) ==
    [pday |-> pday,
     has_competitions |-> shape.has_competitions,
     competitors |-> shape.competitors,
     date |-> [valid |-> shape.stamp.valid,
               day |-> pday + shape.stamp.dayOffset,
               hour |-> shape.stamp.hour]]

\* days around the window boundaries
EventDays(start) == {start, start + chunk_size - 1, start + chunk_size}

\* the provider lists its events in date order
EventLists(start) ==
    LET E == {EventAt(s, d) : s \in EventShapes, d \in EventDays(start)}
    IN UNION {{l \in [1..n -> E] :
                  \A i \in 1..(n - 1) : l[i].pday <= l[i + 1].pday}
              : n \in 0..MaxEvents}

InitSched ==
    /\ pc = "schedule"
    /\ start_date = SchedBase
    /\ end_date \in start_date..(start_date + MaxRangeDays - 1)
    /\ current_date = start_date
    /\ espn_events \in EventLists(start_date)
    /\ all_games = <<>>
    /\ chunks = <<>>
    /\ served = <<>>
    /\ r_retries = MAX_RETRIES
    /\ r_delay = RETRY_DELAY
    /\ r_i = 0
    /\ r_calls = 0
    /\ r_waits = <<>>
    /\ r_status = "running"
    /\ r_last = "none"
    /\ IdleStats
    /\ IdleMainAt(1)

NextSched == SchedRequest \/ SchedChunkReturned \/ SchedChunkRaised \/ SchedReturn

SpecSched == InitSched /\ [][NextSched]_vars

-----------------------------------------------------------------------------
(* fetch_player_stats *)

team_abbr_map ==
    [t \in {"GSW", "NOP", "NYK", "SAS", "UTA", "WAS"} |->
        CASE t = "GSW" -> "GS" [] t = "NOP" -> "NO" [] t = "NYK" -> "NY"
          [] t = "SAS" -> "SA" [] t = "UTA" -> "UTAH" [] OTHER -> "WSH"]

\* team_abbr_map.get(original_team, original_team)
MappedTeam(t) == IF t \in DOMAIN team_abbr_map THEN team_abbr_map[t] ELSE t

\* the games-played filter left out
IsActiveUnfiltered(row) == row.GP >= 0

IsActive(row) == row.GP > 0

\* df[df['GP'] > 0]
ActiveRows(df) == SelectSeq(df, IsActive)

\* df_tot[df_tot['PLAYER_ID'] == player_id]
TotalsRows(df, player_id) == SelectSeq(df, LAMBDA r : r.PLAYER_ID = player_id)

HasTotals(df, player_id) == TotalsRows(df, player_id) # <<>>

PlayerRecord(avg, tot) ==
    [player_id |-> avg.PLAYER_ID, team |-> MappedTeam(avg.TEAM_ABBREVIATION),
     gp |-> avg.GP, pts_avg |-> avg.PTS, pts_tot |-> tot.PTS]

\* the loop over df_avg.iterrows()
RECURSIVE PlayersData(_, _)
PlayersData(avgRows, totRows) ==
    IF avgRows = <<>> THEN <<>>
    ELSE LET player_avg == Head(avgRows)
             rest == PlayersData(Tail(avgRows), totRows)
         IN IF HasTotals(totRows, player_avg.PLAYER_ID)
              THEN <<PlayerRecord(player_avg,
                                  TotalsRows(totRows, player_avg.PLAYER_ID)[1])>>
                   \o rest
              ELSE rest

\* lines 217-287: the value returned once both queries returned frames
StatsResult(avg, tot, season, label, date_from) ==
    IF avg = <<>> THEN None
    ELSE [kind |-> "player_stats", season |-> season, period |-> label,
          date_from |-> date_from,
          players |-> PlayersData(ActiveRows(avg), ActiveRows(tot))]

\* the recency window of each player-stats artifact of main
PeriodLabel(k) ==
    CASE k = 3 -> "Last 7 Days" [] k = 4 -> "Last 14 Days" [] OTHER -> "Season"
DateFrom(k, t) ==
    CASE k = 3 -> ToOrdinal(t) - 7 [] k = 4 -> ToOrdinal(t) - 14 [] OTHER -> 0

\* fetch_player_stats is entered: the average-mode query comes first
StatsEnter ==
    /\ df_avg' = <<>>
    /\ queries' = <<"PerGame">>
    /\ RetryStart

\* a fetch ended with a result for save_json
FetchDone(result) ==
    /\ data' = result
    /\ steps' = Append(steps, <<"fetched", art>>)
    /\ pc' = "save"
    /\ UNCHANGED <<today, current_season, season_start, season_end, results,
                   art, files, save_name, save_before, save_ret, exit_code>>

StatsAvgRequest ==
    /\ pc = "stats_avg"
    /\ \E out \in FuncOutcomes : RetryStep(out)
    /\ UNCHANGED <<pc, schedVars, statsVars, mainVars>>

\* the average-mode query returned: get_data_frames()[0], then the next query
StatsAvgReturned ==
    /\ pc = "stats_avg"
    /\ r_status = "returned"
    /\ r_last = "ok"
    /\ df_avg' = stats_avg
    /\ queries' = Append(queries, "Totals")
    /\ RetryStart
    /\ pc' = "stats_tot"
    /\ UNCHANGED <<schedVars, stats_avg, stats_tot, mainVars>>

\* an exception inside the try block: the except clause returns None
StatsAvgFailed ==
    /\ pc = "stats_avg"
    /\ \/ r_status = "raised"
       \/ r_status = "returned" /\ r_last = "malformed"
    /\ FetchDone(None)
    /\ UNCHANGED <<retryVars, schedVars, statsVars>>

StatsTotRequest ==
    /\ pc = "stats_tot"
    /\ \E out \in FuncOutcomes : RetryStep(out)
    /\ UNCHANGED <<pc, schedVars, statsVars, mainVars>>

\* the total-mode query returned: the join
StatsTotReturned ==
    /\ pc = "stats_tot"
    /\ r_status = "returned"
    /\ r_last = "ok"
    /\ FetchDone(StatsResult(df_avg, stats_tot, current_season,
                             PeriodLabel(art), DateFrom(art, today)))
    /\ UNCHANGED <<retryVars, schedVars, statsVars>>

StatsTotFailed ==
    /\ pc = "stats_tot"
    /\ \/ r_status = "raised"
       \/ r_status = "returned" /\ r_last = "malformed"
    /\ FetchDone(None)
    /\ UNCHANGED <<retryVars, schedVars, statsVars>>

\* fetch_player_stats taken alone ----------------------------------------------

MaxPlayers == 2
GamesPlayed == {0, 3}
StatsTeamCodes == <<"GSW", "NOP", "NYK", "SAS", "UTA", "WAS", "BOS", "GS">>

\* the team code of player p in the provider's table number c
TeamOf(c, p) == StatsTeamCodes[((c + p) % Len(StatsTeamCodes)) + 1]

AvgRow(c, p, gp) ==
    [PLAYER_ID |-> p, GP |-> gp, TEAM_ABBREVIATION |-> TeamOf(c, p), PTS |-> 10 + p]
TotRow(p, gp) == [PLAYER_ID |-> p, GP |-> gp, PTS |-> (10 + p) * gp]

\* the rows of the players of `present`, by ascending player id
RECURSIVE AvgFrame(_, _, _)
AvgFrame(c, gpOf, p) ==
    IF p > MaxPlayers THEN <<>>
    ELSE (IF gpOf[p] = -1 THEN <<>> ELSE <<AvgRow(c, p, gpOf[p])>>)
         \o AvgFrame(c, gpOf, p + 1)

RECURSIVE TotFrame(_, _)
TotFrame(gpOf, p) ==
    IF p > MaxPlayers THEN <<>>
    ELSE (IF gpOf[p] = -1 THEN <<>> ELSE <<TotRow(p, gpOf[p])>>)
         \o TotFrame(gpOf, p + 1)

\* -1: the player has no row
Presence == [1..MaxPlayers -> {-1} \cup GamesPlayed]

InitStats ==
    /\ pc = "stats_avg"
    /\ \E c \in 0..(Len(StatsTeamCodes) - 1), ga \in Presence :
          stats_avg = AvgFrame(c, ga, 1)
    /\ \E gt \in Presence : stats_tot = TotFrame(gt, 1)
    /\ df_avg = <<>>
    /\ queries = <<"PerGame">>
    /\ r_retries = MAX_RETRIES
    /\ r_delay = RETRY_DELAY
    /\ r_i = 0
    /\ r_calls = 0
    /\ r_waits = <<>>
    /\ r_status = "running"
    /\ r_last = "none"
    /\ IdleSched
    /\ today = Date(2025, 11, 15)
    /\ current_season = [from |-> 2025, to |-> 26]
    /\ season_start = Date(2025, 10, 1)
    /\ season_end = Date(2026, 4, 15)
    /\ results = [k \in Artifacts |-> FALSE]
    /\ art \in 2..4
    /\ data = None
    /\ files = [k \in Artifacts |-> PriorContent]
    /\ save_name = [base |-> "", season |-> [from |-> 0, to |-> 0]]
    /\ save_before = PriorContent
    /\ save_ret = FALSE
    /\ steps = <<>>
    /\ exit_code = -1

NextStats ==
    \/ StatsAvgRequest \/ StatsAvgReturned \/ StatsAvgFailed
    \/ StatsTotRequest \/ StatsTotReturned \/ StatsTotFailed

SpecStats == InitStats /\ [][NextStats]_vars

-----------------------------------------------------------------------------
(* fetch_defensive_ratings *)

DefRequest ==
    /\ pc = "defense"
    /\ \E out \in FuncOutcomes : RetryStep(out)
    /\ UNCHANGED <<pc, schedVars, statsVars, mainVars>>

DefReturned ==
    /\ pc = "defense"
    /\ r_status = "returned"
    /\ r_last = "ok"
    /\ FetchDone([kind |-> "defensive_ratings", season |-> current_season])
    /\ UNCHANGED <<retryVars, schedVars, statsVars>>

DefFailed ==
    /\ pc = "defense"
    /\ \/ r_status = "raised"
       \/ r_status = "returned" /\ r_last = "malformed"
    /\ FetchDone(None)
    /\ UNCHANGED <<retryVars, schedVars, statsVars>>

-----------------------------------------------------------------------------
(* save_json *)

\* what open() and json.dump() do: both succeed, open() raises, or
\* json.dump() raises after open() has truncated the file
WriteOutcomes == {"written", "open_failed", "dump_failed"}

PartialContent == [kind |-> "partial"]

\* the content of the artifact after save_json(d, filename)
ContentAfterSave(before, d, w) ==
    IF d = None THEN before
    ELSE CASE w = "written" -> d
           [] w = "open_failed" -> before
           [] OTHER -> PartialContent

\* the check for a null result left out of the return value
SaveReturnsIgnoringNone(d, w) == w = "written"

\* the value save_json(d, filename) returns
SaveReturns(d, w) == d # None /\ w = "written"

-----------------------------------------------------------------------------
(* main *)

FORCED_FROM_YEAR == 2024
FORCED_TO_YEAR == 2025

\* lines 375-380: a clock in 2024 is moved to 2025
ForcedToday(t) ==
    IF t.year = FORCED_FROM_YEAR
      THEN IF IsDate(Date(FORCED_TO_YEAR, t.month, t.day))
             THEN Date(FORCED_TO_YEAR, t.month, t.day)
             ELSE FromOrdinal(ToOrdinal(t) + 365, t.year)
      ELSE t

\* str(year)[-2:] of a four-digit year, as a number
LastTwo(year) == year % 100

\* lines 383-387
SeasonLabel(t) ==
    IF t.month >= 10
      THEN [from |-> t.year, to |-> LastTwo(t.year + 1)]
      ELSE [from |-> t.year - 1, to |-> LastTwo(t.year)]

\* lines 406-414: the first year of the season whose schedule is fetched
SeasonStartYear(t) ==
    IF t.month >= 10 THEN t.year
    ELSE IF t.month <= 4 THEN t.year - 1
    ELSE t.year

SeasonStart(t) == Date(SeasonStartYear(t), 10, 1)
SeasonEnd(t) == Date(SeasonStartYear(t) + 1, 4, 15)

FileName(k, season) ==
    [base |-> CASE k = 1 -> "schedule" [] k = 2 -> "player_stats_season"
                [] k = 3 -> "player_stats_l7" [] k = 4 -> "player_stats_l14"
                [] OTHER -> "defensive_ratings",
     season |-> IF k = 1 THEN season ELSE [from |-> 0, to |-> 0]]

\* the L14 fetch left out
PcAfterSaveSkippingL14(k) ==
    CASE k \in 1..2 -> "stats_avg" [] k = 3 -> "defense" [] OTHER -> "summary"

\* the statement that follows the save of artifact k
PcAfterSave(k) ==
    CASE k \in 1..3 -> "stats_avg" [] k = 4 -> "defense" [] OTHER -> "summary"

\* the half taken with integer division
ExitStatusFloorHalf(success_count, total_count) ==
    IF success_count >= total_count \div 2 THEN 0 ELSE 1

\* exit status: 0 if success_count >= total_count / 2
ExitStatus(success_count, total_count) ==
    IF 2 * success_count >= total_count THEN 0 ELSE 1

SuccessCount(r) == Cardinality({k \in DOMAIN r : r[k]})

\* lines 371-417: the season, its bounds, and the call of fetch_schedule_espn
DetermineSeason ==
    /\ pc = "start"
    /\ today' = ForcedToday(today)
    /\ current_season' = SeasonLabel(today')
    /\ season_start' = SeasonStart(today')
    /\ season_end' = SeasonEnd(today')
    /\ results' = [k \in Artifacts |-> FALSE]
    /\ art' = 1
    /\ SchedEnter(ToOrdinal(season_start'), ToOrdinal(season_end'))
    /\ pc' = "schedule"
    /\ UNCHANGED <<espn_events, statsVars, data, files, save_name, save_before,
                   save_ret, steps, exit_code>>

\* results[...] = save_json(data, filename), then the next fetch is entered
SaveJson ==
    /\ pc = "save"
    /\ \E w \in WriteOutcomes :
          /\ files' = [files EXCEPT ![art] = ContentAfterSave(files[art], data, w)]
          /\ save_ret' = SaveReturns(data, w)
    /\ results' = [results EXCEPT ![art] = save_ret']
    /\ save_before' = files[art]
    /\ save_name' = FileName(art, current_season)
    /\ steps' = Append(steps, <<"saved", art>>)
    /\ pc' = PcAfterSave(art)
    /\ art' = IF art < 5 THEN art + 1 ELSE art
    /\ IF pc' = "stats_avg" THEN StatsEnter
       ELSE /\ RetryStart
            /\ UNCHANGED <<df_avg, queries>>
    /\ UNCHANGED <<schedVars, stats_avg, stats_tot, today, current_season,
                   season_start, season_end, data, exit_code>>

\* lines 442-457
Summary ==
    /\ pc = "summary"
    /\ exit_code' = ExitStatus(SuccessCount(results), Cardinality(DOMAIN results))
    /\ pc' = "exit"
    /\ UNCHANGED <<retryVars, schedVars, statsVars, today, current_season,
                   season_start, season_end, results, art, data, files,
                   save_name, save_before, save_ret, steps>>

\* the clock readings and provider contents tried -----------------------------

YearSpan == 1
ClockYears == FORCED_FROM_YEAR..(FORCED_FROM_YEAR + YearSpan)

\* the 15th of every month, and the leap days
Clock ==
    {d \in [year : ClockYears, month : 1..12, day : {15, 29}] :
        d.day = 15 \/ (d.month = 2 /\ IsLeap(d.year))}

\* what the two providers hold during one run: nothing at all, or a schedule
\* with a well-formed and a malformed event and two players, one without totals
Worlds(base) ==
    { [events |-> <<>>, avg |-> <<>>, tot |-> <<>>],
      [events |-> <<EventAt(ValidShape, base + chunk_size),
                    EventAt(BadAwayIdShape, base + chunk_size)>>,
       avg |-> <<AvgRow(0, 1, 3), AvgRow(0, 2, 3)>>,
       tot |-> <<TotRow(2, 3)>>] }

InitMain ==
    /\ pc = "start"
    /\ today \in Clock
    /\ \E w \in Worlds(ToOrdinal(SeasonStart(ForcedToday(today)))) :
          /\ espn_events = w.events
          /\ stats_avg = w.avg
          /\ stats_tot = w.tot
    /\ start_date = 0
    /\ end_date = 0
    /\ current_date = 0
    /\ all_games = <<>>
    /\ chunks = <<>>
    /\ served = <<>>
    /\ df_avg = <<>>
    /\ queries = <<>>
    /\ r_retries = MAX_RETRIES
    /\ r_delay = RETRY_DELAY
    /\ r_i = 0
    /\ r_calls = 0
    /\ r_waits = <<>>
    /\ r_status = "running"
    /\ r_last = "none"
    /\ current_season = [from |-> 0, to |-> 0]
    /\ season_start = Date(0, 0, 0)
    /\ season_end = Date(0, 0, 0)
    /\ results = [k \in Artifacts |-> FALSE]
    /\ art = 0
    /\ data = None
    /\ files = [k \in Artifacts |-> PriorContent]
    /\ save_name = [base |-> "", season |-> [from |-> 0, to |-> 0]]
    /\ save_before = PriorContent
    /\ save_ret = FALSE
    /\ steps = <<>>
    /\ exit_code = -1

NextMain ==
    \/ DetermineSeason
    \/ SchedRequest \/ SchedChunkReturned \/ SchedChunkRaised \/ SchedReturn
    \/ StatsAvgRequest \/ StatsAvgReturned \/ StatsAvgFailed
    \/ StatsTotRequest \/ StatsTotReturned \/ StatsTotFailed
    \/ DefRequest \/ DefReturned \/ DefFailed
    \/ SaveJson
    \/ Summary

SpecMain == InitMain /\ [][NextMain]_vars

\* main runs to completion: every step it can take is eventually taken
FairMain == SpecMain /\ WF_vars(NextMain)

-----------------------------------------------------------------------------
(* Properties *)

Last(s) == s[Len(s)]
IsPrefix(s, t) == Len(s) <= Len(t) /\ s = SubSeq(t, 1, Len(s))

\* what holds of a call of retry_api_call at every point of it
C1_RetryState ==
    /\ r_calls <= r_retries
    /\ r_waits = [k \in 1..Len(r_waits) |-> r_delay * k]
    /\ (r_status = "running" => Len(r_waits) = r_calls)
    /\ (r_status = "running" /\ r_calls > 0 => r_last \in Transient)
    /\ (r_last \in Returns <=> r_status = "returned")
    /\ (r_status \in {"returned", "raised"} => Len(r_waits) = r_calls - 1)
    /\ (r_last \in Transient /\ r_calls = r_retries => r_status = "raised")
    /\ (r_last \in Transient /\ r_calls < r_retries => r_status = "running")
    /\ (r_last \in NonTransient => r_status = "raised")
    /\ (r_last \in NonTransient /\ r_waits = <<>> => r_calls = 1)
    /\ (r_status = "fellthrough" => r_retries = 0 /\ r_calls = 0)

\* C1: retry_api_call invokes func again only after a transient failure,
\* sleeps delay * k after the k-th failed attempt when attempts remain, never
\* invokes func more than `retries` times, returns at once on success, raises
\* the failure of the last allowed attempt without a further sleep, and
\* raises a non-transient failure from the invocation that met it, with no
\* retry (so after one invocation when it is the first failure).
C1_RetryContract ==
    /\ []C1_RetryState
    /\ [][r_calls' # r_calls =>
             /\ r_calls' = r_calls + 1
             /\ r_status = "running"
             /\ (r_calls > 0 => r_last \in Transient)]_vars
    /\ [][(r_status \in {"returned", "raised"}) => (retryVars' = retryVars)]_vars

\* the third of three attempts failed with a timeout after sleeps of d and 2d
C1_Witness ==
    /\ pc = "retry"
    /\ r_retries = 3
    /\ r_calls = 3
    /\ r_status = "raised"
    /\ r_last = "ReadTimeout"
    /\ r_waits = <<r_delay, 2 * r_delay>>

FullOrder ==
    [i \in 1..10 |-> <<IF i % 2 = 1 THEN "fetched" ELSE "saved", (i + 1) \div 2>>]

FetchPcs(k) ==
    CASE k = 1 -> {"schedule"} [] k \in 2..4 -> {"stats_avg", "stats_tot"}
      [] OTHER -> {"defense"}

\* where main stands, given the steps it has taken
C2_Order ==
    /\ IsPrefix(steps, FullOrder)
    /\ (pc = "start" => steps = <<>>)
    /\ (pc \in {"schedule", "stats_avg", "stats_tot", "defense"} =>
            /\ art \in Artifacts
            /\ pc \in FetchPcs(art)
            /\ Len(steps) = 2 * (art - 1))
    /\ (pc = "save" => art \in Artifacts /\ Len(steps) = 2 * art - 1)
    /\ (pc \in {"summary", "exit"} => steps = FullOrder)
    /\ (pc = "exit" <=> exit_code \in {0, 1})

\* C2: whatever fails, main attempts the five fetch-and-save steps in the
\* fixed order, each save after its own fetch and before the next fetch, and
\* the run always reaches the exit-status decision.
C2_AllStepsRun == []C2_Order /\ <>(pc = "exit" /\ steps = FullOrder)

\* a run in which nothing was written still went through all ten steps
C2_Witness ==
    /\ pc = "exit"
    /\ steps = FullOrder
    /\ \A k \in Artifacts : ~results[k] /\ files[k] = PriorContent
    /\ exit_code = 1

FullKind(k) ==
    CASE k = 1 -> "schedule" [] k \in 2..4 -> "player_stats"
      [] OTHER -> "defensive_ratings"

IsSnapshot(content) == content.kind \notin {"prior", "partial"}

\* C3: the exit status is 0 exactly when at least 3 of the 5 flags are true,
\* 1 otherwise, and a flag is true exactly when save_json wrote that artifact
\* in this run.
C3_ExitStatus ==
    /\ (pc = "exit" =>
           exit_code = IF SuccessCount(results) >= 3 THEN 0 ELSE 1)
    /\ (pc # "exit" => exit_code = -1)
    /\ \A k \in Artifacts : results[k] <=> IsSnapshot(files[k])
    /\ \A k \in Artifacts :
          (Len(steps) >= 2 * k /\ results[k]) =>
              files[k].kind = FullKind(k)

\* exactly three artifacts were written and the run exits with 0
C3_Witness ==
    /\ pc = "exit"
    /\ SuccessCount(results) = 3
    /\ exit_code = 0

\* C4: when save_json returns False the artifact holds what it held before
\* the call, when it returns True it holds the new snapshot, and a failed
\* write is returned, not raised.
C4_FailedSaveKeepsContent ==
    (Len(steps) > 0 /\ Last(steps)[1] = "saved") =>
        LET k == Last(steps)[2]
        IN /\ (~save_ret => files[k] = save_before)
           /\ (save_ret => files[k] = data /\ data # None)

\* C9: the season bounds follow the October rollover rule of the label for
\* every month: start is October 1 of Y and end is April 15 of Y + 1, where
\* Y is the year for months 10..12 and the year before otherwise.
C9_BoundsFollowLabel ==
    pc # "start" =>
        LET Y == IF today.month >= 10 THEN today.year ELSE today.year - 1
        IN /\ current_season = [from |-> Y, to |-> (Y + 1) % 100]
           /\ season_start = Date(Y, 10, 1)
           /\ season_end = Date(Y + 1, 4, 15)
           /\ (save_name.base = "schedule" => save_name.season.from = season_start.year)

\* the windows requested so far are consecutive, at most 7 days long, start
\* at start_date and stay inside [start_date, end_date]
WindowsTile ==
    /\ \A i \in 1..Len(chunks) :
          /\ chunks[i].from <= chunks[i].to
          /\ chunks[i].to - chunks[i].from + 1 <= 7
          /\ start_date <= chunks[i].from /\ chunks[i].to <= end_date
          /\ chunks[i].from = IF i = 1 THEN start_date ELSE chunks[i - 1].to + 1
    /\ current_date = IF chunks = <<>> THEN start_date
                      ELSE Last(chunks).to + 1
    /\ (pc = "save" =>
           \A d \in start_date..end_date :
              Cardinality({i \in 1..Len(chunks) :
                              chunks[i].from <= d /\ d <= chunks[i].to}) = 1)

\* an event the per-event rules of the schedule fetch accept
Qualifies(e) ==
    PassesFilters(e) /\ \A c \in {e.competitors[i] : i \in 1..Len(e.competitors)} :
                            IntParses(c.team.id)

\* the two entries of each qualifying event, in the order of the events
RECURSIVE EntriesOf(_)
EntriesOf(events) ==
    IF events = <<>> THEN <<>>
    ELSE LET e == Head(events)
             home == LastTeam(e.competitors, TRUE)
             away == LastTeam(e.competitors, FALSE)
             d == GameDateOnly(e.date)
         IN (IF Qualifies(e)
               THEN <<HomeEntry(d, home, away), AwayEntry(d, home, away)>>
               ELSE <<>>)
            \o EntriesOf(Tail(events))

\* C5: the windows tile [start, end] and the loop ends; the result holds the
\* entries of the qualifying events of every window whose request succeeded,
\* each event once, a failed window adding and removing nothing; with no
\* failed window that is every qualifying event of the range.
C5_WindowsLoseNothing ==
    /\ WindowsTile
    /\ all_games = EntriesOf(served)
    /\ (pc = "save" => data = ScheduleResult(EntriesOf(served)))

IsHomeOf(x, y) ==
    /\ x.is_home /\ ~y.is_home
    /\ x.date = y.date
    /\ x.matchup = <<x.team_abbr, "vs.", y.team_abbr>>
    /\ y.matchup = <<y.team_abbr, "@", x.team_abbr>>

\* C6: the accumulated list is always made of reciprocal pairs: a home entry
\* "H vs. A" followed by the away entry "A @ H" of the same date, so it holds
\* two entries per emitted game and no entry without its partner.
C6_EntriesComeInPairs ==
    /\ Len(all_games) % 2 = 0
    /\ \A i \in 1..Len(all_games) :
          IF i % 2 = 1
            THEN i + 1 <= Len(all_games) /\ IsHomeOf(all_games[i], all_games[i + 1])
            ELSE IsHomeOf(all_games[i - 1], all_games[i])

\* C10: every emitted game comes from an event of exactly two participants,
\* its home side the participant flagged "home" and its away side the
\* participant flagged "away".
C10_ExactlyTwoParticipants ==
    \A i \in 1..Len(all_games) :
        \E j \in 1..Len(served) :
            LET e == served[j]
                g == all_games[i]
            IN /\ Len(e.competitors) = 2
               /\ \E h, a \in 1..2 :
                     /\ e.competitors[h].homeAway = "home"
                     /\ e.competitors[a].homeAway = "away"
                     /\ g.matchup \in
                          {<<e.competitors[h].team.abbreviation, "vs.",
                             e.competitors[a].team.abbreviation>>,
                           <<e.competitors[a].team.abbreviation, "@",
                             e.competitors[h].team.abbreviation>>}

\* the six divergent team codes, and every other code unchanged
RemapTable(t) ==
    CASE t = "GSW" -> "GS" [] t = "NOP" -> "NO" [] t = "NYK" -> "NY"
      [] t = "SAS" -> "SA" [] t = "UTA" -> "UTAH" [] t = "WAS" -> "WSH"
      [] OTHER -> t

PlayedIn(df, p) == \E i \in 1..Len(df) : df[i].PLAYER_ID = p /\ df[i].GP > 0

\* C7: an envelope returned by fetch_player_stats holds a record of player P
\* exactly when P has games_played > 0 in both the average-mode and the
\* total-mode rows, and each record's team is the provider's code remapped.
C7_RecordIffInBothSets ==
    (pc = "save" /\ data # None) =>
        /\ data.kind = "player_stats"
        /\ \A p \in 1..MaxPlayers :
              (\E i \in 1..Len(data.players) : data.players[i].player_id = p)
                 <=> (PlayedIn(stats_avg, p) /\ PlayedIn(stats_tot, p))
        /\ \A i \in 1..Len(data.players) :
              \E j \in 1..Len(stats_avg) :
                 /\ stats_avg[j].PLAYER_ID = data.players[i].player_id
                 /\ data.players[i].team = RemapTable(stats_avg[j].TEAM_ABBREVIATION)

\* an envelope with a record, while another player played in one set only
C7_Witness ==
    /\ pc = "save"
    /\ data # None
    /\ Len(data.players) = 1
    /\ \E p \in 1..MaxPlayers :
          PlayedIn(stats_avg, p) /\ ~PlayedIn(stats_tot, p)
    /\ \E i \in 1..Len(stats_avg) :
          stats_avg[i].TEAM_ABBREVIATION = "UTA" /\ data.players[1].team = "UTAH"

\* C8: fetch_player_stats issues the average-mode query, then the total-mode
\* query; when a query fails after its retries, or the average-mode query
\* returns no rows, it returns null; save_json then writes nothing, the
\* artifact keeps its prior content, its flag is false and main goes on.
C8_NullStatsSkipWrite ==
    /\ (pc = "stats_avg" => queries = <<"PerGame">>)
    /\ (pc = "stats_tot" => queries = <<"PerGame", "Totals">>)
    /\ (pc \in {"stats_avg", "stats_tot"} /\ r_status = "raised" /\ r_last \in Transient
           => r_calls = MAX_RETRIES)
    /\ (pc = "save" /\ art \in 2..4 /\
        (r_status = "raised" \/ (queries = <<"PerGame", "Totals">> /\ df_avg = <<>>))
           => data = None)
    /\ \A k \in 2..4 :
          (Len(steps) > 0 /\ Last(steps) = <<"saved", k>> /\ data = None) =>
              /\ ~save_ret
              /\ files[k] = save_before
              /\ files[k] = PriorContent
              /\ ~results[k]
              /\ art = k + 1
              /\ pc \in FetchPcs(k + 1)

\* the average-mode query of the L14 fetch returned rows, the total-mode query
\* was issued, the result was null, and main is fetching the defensive ratings
C8_Witness ==
    /\ pc = "defense"
    /\ Last(steps) = <<"saved", 4>>
    /\ queries = <<"PerGame", "Totals">>
    /\ df_avg # <<>>
    /\ data = None
    /\ ~results[4]
    /\ files[4] = PriorContent

====
